---- MODULE Spec2Model ----
(***************************************************************************)
(* Stat value ingestion of stathq (src/main.go): the value codec           *)
(* (StringToMoney, MoneyToUSD, USD), the quota helpers, and the write      *)
(* handlers handleLogWeeklyStats, handleSaveWeeklyEdit and handleSave7R    *)
(* over the weekly_stats and daily_stats tables.                           *)
(*                                                                         *)
(* The SQL main.go issues names the columns name, date / week_ending,      *)
(* value and user_id, which only the schema of src/unnamed/part_000        *)
(* (lines 74-96) has; that schema declares no UNIQUE constraint, so a      *)
(* table is a bag of rows.  The AUTOINCREMENT id is read by no handler and *)
(* is left out.                                                            *)
(***************************************************************************)
EXTENDS Integers, Sequences, FiniteSets, Bags, TLC

VARIABLES stats, weekly, daily, last, procs, lockHolder, commits, calc, reply,
          users, statSeq

vars == <<stats, weekly, daily, last, procs, lockHolder, commits, calc, reply, users,
          statSeq>>

(***************************************************************************)
(* Bounds                                                                  *)
(***************************************************************************)
\* largest magnitude, in thousandths of a dollar, of a currency literal
MaxThou == 2130
\* largest weekly quota (units for counts, cents for currency)
MaxQuota == 60
\* most rows the two tables may hold together
MaxRows == 2
\* most rows in one batch payload
MaxBatch == 2

(***************************************************************************)
(* Decimal literals: the strings the handlers receive.  A literal is kept  *)
(* as its syntax: sign, digits (as a magnitude in thousandths) and the     *)
(* number of fractional digits written.                                    *)
(***************************************************************************)
Empty == [k |-> "empty", neg |-> FALSE, thou |-> 0, nfrac |-> 0]

Garbage == [k |-> "text", neg |-> FALSE, thou |-> 0, nfrac |-> 0]

Dec(neg, thou, nfrac) == [k |-> "dec", neg |-> neg, thou |-> thou, nfrac |-> nfrac]

\* strings.TrimSpace(raw) == ""  (the literals carry no blanks)
IsEmpty(s) == s.k = "empty"

\* strconv.ParseFloat(s, 64) returns no error
ParseFloatOK(s) == s.k = "dec"

\* strconv.Atoi(s) returns no error: digits only, no fraction
AtoiOK(s) == s.k = "dec" /\ s.nfrac = 0

\* the int strconv.Atoi(s) returns
Atoi(s) == IF s.neg THEN 0 - (s.thou \div 1000) ELSE s.thou \div 1000

\* value of a literal in thousandths, signed
SignedThou(s) == IF s.neg THEN 0 - s.thou ELSE s.thou

Abs(x) == IF x < 0 THEN 0 - x ELSE x

(***************************************************************************)
(* float64: strconv.ParseFloat returns the double nearest to n/1000.       *)
(* n/1000 = (n/125) * 2^-3, so the double is exact iff 125 divides n;      *)
(* otherwise it lies above n/1000 iff the remainder of n * 2^k by 125 is   *)
(* more than half of 125, where k scales n/125 into [2^52, 2^53).          *)
(***************************************************************************)
RECURSIVE Pow2Mod125(_)
Pow2Mod125(k) == IF k = 0 THEN 1 ELSE (2 * Pow2Mod125(k - 1)) % 125

\* largest e >= 0 with 125 * 2^e <= n   (n >= 125)
RECURSIVE ExpUp(_, _)
ExpUp(n, p) == IF 2 * p <= n THEN 1 + ExpUp(n, 2 * p) ELSE 0

\* least e >= 0 with n * 2^e >= 125    (0 < n)
RECURSIVE ExpDown(_)
ExpDown(n) == IF n >= 125 THEN 0 ELSE 1 + ExpDown(2 * n)

\* sign of double(n/1000) - n/1000 for a magnitude n in thousandths
Float64Error(n) ==
  IF n % 125 = 0 THEN 0
  ELSE LET k == IF n >= 125 THEN 52 - ExpUp(n, 125) ELSE 52 + ExpDown(n)
           r == ((n % 125) * Pow2Mod125(k)) % 125
       IN IF r >= 63 THEN 1 ELSE 0 - 1

\* magnitude in cents that fmt.Sprintf("%.2f", fl) prints for the double
\* nearest to n/1000: correctly rounded, an exact tie going to the even digit
Sprintf2(n) ==
  LET q == n \div 10
      r == n % 10
  IN IF r < 5 THEN q
     ELSE IF r > 5 THEN q + 1
     ELSE IF Float64Error(n) > 0 THEN q + 1
     ELSE IF Float64Error(n) < 0 THEN q
     ELSE IF q % 2 = 0 THEN q ELSE q + 1

(***************************************************************************)
(* Money                                                                   *)
(***************************************************************************)
\* StringToMoney: "" is read as "0.00"; the float is printed with %.2f and
\* split at the point; Dollars = Atoi of the part before it (sign included,
\* "-0" gives 0), Cents = Atoi of the two digits after it.
StringToMoney(s) ==
  IF IsEmpty(s) THEN [err |-> FALSE, Dollars |-> 0, Cents |-> 0, Negative |-> FALSE]
  ELSE IF ~ParseFloatOK(s) THEN [err |-> TRUE, Dollars |-> 0, Cents |-> 0, Negative |-> FALSE]
  ELSE LET c == Sprintf2(s.thou)
           d == IF s.neg THEN 0 - (c \div 100) ELSE c \div 100
       IN [err |-> FALSE, Dollars |-> d, Cents |-> c % 100,
           Negative |-> s.neg /\ s.thou > 0]

\* Money.MoneyToUSD: Dollars * 100 + Cents; Negative is not consulted
MoneyToUSD(m) == m.Dollars * 100 + m.Cents

\* USD.String: cents / 100 printed with two decimals
USDString(m) == Dec(m < 0, Abs(m) * 10, 2)

\* int64(x) of a float that is h + 0.5 for an integer h: truncation toward zero
TruncHalf(h) == IF h >= 0 THEN h ELSE h + 1

\* ToUSD(f) = USD(f*100 + 0.5) for f a whole number of cents p
ToUSD(p) == TruncHalf(p)

\* USD.Divide(f) = USD(float64(m)/f + 0.5)
USDDivide(m, f) == IF m >= 0 THEN (2 * m + f) \div (2 * f)
                   ELSE IF 2 * (0 - m) < f THEN 0
                   ELSE 0 - ((2 * (0 - m) - f) \div (2 * f))

\* USD.Multiply(f) = USD(float64(m)*f + 0.5), f a whole number
USDMultiply(m, f) == TruncHalf(m * f)

\* Go's n / 5 on ints truncates toward zero
GoDiv(n, d) == IF n >= 0 THEN n \div d ELSE 0 - ((0 - n) \div d)

\* GetQuotaInt(i, q) for a quota string that is the integer n
GetQuotaInt(i, n) == GoDiv(n, 5) * i

\* GetQuotaFloat(i, q) for a quota string worth p cents; the result in cents
GetQuotaFloat(i, p) == USDMultiply(USDDivide(ToUSD(p), 5), i)

(***************************************************************************)
(* Dates are day numbers counted from 1970-01-01, a Thursday; a string     *)
(* time.Parse rejects is a negative number.                                *)
(***************************************************************************)
\* time.Thursday
Thursday == 4

\* t.Weekday() of day number d
Weekday(d) == (d + 4) % 7

\* a check that accepts every date time.Parse accepts, whatever its weekday
AnyParsedDate(we) == we >= 0

\* checkIfValidWE: nil iff the string parses and the day is a Thursday
checkIfValidWE(we) == we >= 0 /\ Weekday(we) = Thursday

\* the dates map of handleSave7R / handleGetDailyStats: we.AddDate(0, 0, k)
Days == <<"Thursday", "Friday", "Monday", "Tuesday", "Wednesday">>

DayOffset == [Thursday |-> 0, Friday |-> 1, Monday |-> 4, Tuesday |-> 5, Wednesday |-> 6]

dates(we) == [d \in DOMAIN DayOffset |-> we + DayOffset[d]]

WeekDates(we) == {dates(we)[d] : d \in DOMAIN DayOffset}

(***************************************************************************)
(* The stats table and stat_user_assignments                               *)
(***************************************************************************)
Users == {1, 2}

\* strings.ToLower / SQL LOWER() on the short codes in use
ToLower(s) == CASE s = "GI" -> "gi"
                [] s = "PCT" -> "pct"
                [] s = "VSD" -> "vsd"
                [] s = "DIV" -> "div"
                [] s = "MAIN" -> "main"
                [] s = "NOPE" -> "nope"
                [] OTHER -> s

\* rows CreateStatHandler has inserted: stats (short_id, type, value_type) and
\* the stat_user_assignments of each stat (users)
InitialStats ==
  (1 :> [short_id |-> "GI", type |-> "personal", value_type |-> "currency", users |-> {1}])
  @@ (2 :> [short_id |-> "PCT", type |-> "personal", value_type |-> "percentage", users |-> {1, 2}])
  @@ (3 :> [short_id |-> "VSD", type |-> "personal", value_type |-> "number", users |-> {2}])
  @@ (4 :> [short_id |-> "DIV", type |-> "divisional", value_type |-> "number", users |-> {}])
  @@ (6 :> [short_id |-> "MAIN", type |-> "main", value_type |-> "number", users |-> {}])

\* users.role of the two users the company starts with
UserRole == (1 :> "admin") @@ (2 :> "user")

\* the last id AUTOINCREMENT has given to a stat
LastStatId == 6

\* SELECT ... FROM stats WHERE id = ? finds a row
StatExists(id) == id \in DOMAIN stats

\* a handler that never tests the stat type
AnyStatType(statType) == TRUE

\* the negation of the handlers' test  statType != "personal"
IsPersonal(statType) == statType = "personal"

(***************************************************************************)
(* Tables: bags of rows                                                    *)
(***************************************************************************)
\* DELETE FROM t WHERE ..., S the rows the WHERE clause selects
BagDelete(B, S) == [r \in DOMAIN B \ S |-> B[r]]

\* INSERT INTO t VALUES r
BagInsert(B, r) == B (+) SetToBag({r})

\* number of rows SELECT ... WHERE ... returns, S the rows the WHERE clause selects
BagCount(B, S) == BagCardinality([r \in DOMAIN B \cap S |-> B[r]])

WeeklyRow(name, we, value, uid) ==
  [name |-> name, week_ending |-> we, value |-> value, user_id |-> uid]

DailyRow(name, date, value, uid) ==
  [name |-> name, date |-> date, value |-> value, user_id |-> uid]

(***************************************************************************)
(* Value validation and encoding                                           *)
(***************************************************************************)
\* f < 0 || f > 100 for the float of a literal
PctOutOfRange(s) == (s.neg /\ s.thou > 0) \/ s.thou > 100000

\* int64(f*100 + 0.5) for a literal of at most two fractional digits
PctToStore(s) == TruncHalf(SignedThou(s) \div 10)

\* validateWeeklyValueByType returns nil
validateWeeklyValueByType(valueStr, valueType) ==
  IF IsEmpty(valueStr) THEN TRUE
  ELSE CASE valueType = "currency" -> ~StringToMoney(valueStr).err
         [] valueType = "number" -> AtoiOK(valueStr)
         [] valueType = "percentage" -> ParseFloatOK(valueStr)
         [] OTHER -> FALSE

\* one field of validateDailyStatByType passes
DailyFieldOK(val, valueType) ==
  IF IsEmpty(val) THEN TRUE
  ELSE CASE valueType = "currency" -> ~StringToMoney(val).err
         [] valueType = "number" -> AtoiOK(val)
         [] valueType = "percentage" -> ParseFloatOK(val) /\ ~PctOutOfRange(val)
         [] OTHER -> FALSE

\* validateDailyStatByType returns nil: the five days and the quota pass
validateDailyStatByType(valueType, row) ==
  /\ \A d \in DOMAIN DayOffset : DailyFieldOK(row[d], valueType)
  /\ DailyFieldOK(row.Quota, valueType)

\* the switch on valueType of the weekly handlers: the stored integer
WeeklyStoreVal(value, valueType) ==
  CASE valueType = "currency" ->
         LET m == StringToMoney(value)
         IN [err |-> m.err, val |-> IF m.err THEN 0 ELSE MoneyToUSD(m)]
    [] valueType = "number" ->
         [err |-> ~AtoiOK(value), val |-> IF AtoiOK(value) THEN Atoi(value) ELSE 0]
    [] valueType = "percentage" ->
         [err |-> ~ParseFloatOK(value),
          val |-> IF ParseFloatOK(value) THEN PctToStore(value) ELSE 0]
    [] OTHER -> [err |-> TRUE, val |-> 0]

\* the conversion of one day cell in handleSave7R: StringToMoney first for
\* every value type, strconv.Atoi as the fallback
DailyStoreVal(raw) ==
  LET m == StringToMoney(raw)
  IN IF ~m.err THEN [err |-> FALSE, val |-> MoneyToUSD(m)]
     ELSE IF AtoiOK(raw) THEN [err |-> FALSE, val |-> Atoi(raw)]
     ELSE [err |-> TRUE, val |-> 0]

(***************************************************************************)
(* Write handlers.  Each takes the committed table and returns the         *)
(* response and the table that is committed when it returns: the           *)
(* transaction's table after tx.Commit(), the table as it was after        *)
(* tx.Rollback() or when no transaction was begun.                         *)
(***************************************************************************)
Respond(result, pos, tbl) == [result |-> result, pos |-> pos, tbl |-> tbl]

Step(result, pos, tx) == [result |-> result, pos |-> pos, tx |-> tx]

\* DELETE FROM weekly_stats WHERE LOWER(name)=? AND week_ending = ? AND user_id = ?
WeeklyDeleteKey(tbl, name, we, uid) ==
  BagDelete(tbl, {r \in DOMAIN tbl : ToLower(r.name) = name /\ r.week_ending = we /\ r.user_id = uid})

\* handleLogWeeklyStats before its transaction: the date, the stat lookup, the
\* stat type, the validation and the conversion of the value
LogWeeklyCheck(statID, date, value) ==
  IF ~checkIfValidWE(date) THEN "InvalidDate"
  ELSE IF ~StatExists(statID) THEN "StatNotFound"
  ELSE IF ~IsPersonal(stats[statID].type) THEN "InvalidScope"
  ELSE IF ~validateWeeklyValueByType(value, stats[statID].value_type) THEN "InvalidValue"
  ELSE IF WeeklyStoreVal(value, stats[statID].value_type).err THEN "InvalidValue"
  ELSE "OK"

\* the row handleLogWeeklyStats inserts
LogWeeklyRow(uid, statID, date, value) ==
  WeeklyRow(ToLower(stats[statID].short_id), date,
            WeeklyStoreVal(value, stats[statID].value_type).val, uid)

\* POST /services/logWeeklyStats
handleLogWeeklyStats(tbl, uid, statID, date, value) ==
  IF LogWeeklyCheck(statID, date, value) # "OK"
    THEN Respond(LogWeeklyCheck(statID, date, value), 1, tbl)
  ELSE LET tx1 == WeeklyDeleteKey(tbl, ToLower(stats[statID].short_id), date, uid)
           tx2 == BagInsert(tx1, LogWeeklyRow(uid, statID, date, value))
       IN Respond("OK", 0, tx2)

\* a DELETE of the named weeks without the user_id condition
DeleteWeeksOfAll(tbl, uid, weSet) ==
  BagDelete(tbl, {r \in DOMAIN tbl : r.week_ending \in weSet})

\* DELETE FROM weekly_stats WHERE user_id = ? AND week_ending IN (weSet)
WeeklyDeleteWeeks(tbl, uid, weSet) ==
  BagDelete(tbl, {r \in DOMAIN tbl : r.user_id = uid /\ r.week_ending \in weSet})

\* the insert loop of handleSaveWeeklyEdit from payload row i on
RECURSIVE WeeklyEditLoop(_, _, _, _)
WeeklyEditLoop(tx, uid, payload, i) ==
  IF i > Len(payload) THEN Step("OK", 0, tx)
  ELSE LET row == payload[i]
       IN IF ~StatExists(row.StatID) THEN Step("StatNotFound", i, tx)
          ELSE LET st == stats[row.StatID]
                   sv == WeeklyStoreVal(row.Value, st.value_type)
               IN IF ~IsPersonal(st.type) THEN Step("InvalidScope", i, tx)
                  ELSE IF ~validateWeeklyValueByType(row.Value, st.value_type)
                    THEN Step("InvalidValue", i, tx)
                  ELSE IF IsEmpty(row.Value) THEN WeeklyEditLoop(tx, uid, payload, i + 1)
                  ELSE IF sv.err THEN Step("InvalidValue", i, tx)
                  ELSE WeeklyEditLoop(
                         BagInsert(tx, WeeklyRow(ToLower(st.short_id), row.Weekending,
                                                 sv.val, uid)),
                         uid, payload, i + 1)

\* least index of a payload row whose week-ending checkIfValidWE rejects, 0 if none
FirstBadDate(payload) ==
  LET bad == {i \in 1..Len(payload) : ~checkIfValidWE(payload[i].Weekending)}
  IN IF bad = {} THEN 0 ELSE CHOOSE i \in bad : \A j \in bad : i <= j

\* the deferred and explicit tx.Rollback() of every error path of
\* handleSaveWeeklyEdit, and its tx.Commit(): the table its transaction leaves
WeeklyEditEndTx(tbl, r) == IF r.result = "OK" THEN r.tx ELSE tbl

\* POST /services/saveWeeklyEdit
handleSaveWeeklyEdit(tbl, uid, payload) ==
  IF Len(payload) = 0 THEN Respond("EmptyPayload", 0, tbl)
  ELSE IF FirstBadDate(payload) # 0 THEN Respond("InvalidDate", FirstBadDate(payload), tbl)
  ELSE LET weSet == {payload[i].Weekending : i \in 1..Len(payload)}
           tx0 == WeeklyDeleteWeeks(tbl, uid, weSet)
           r == WeeklyEditLoop(tx0, uid, payload, 1)
       IN Respond(r.result, r.pos, WeeklyEditEndTx(tbl, r))

\* DELETE FROM daily_stats WHERE LOWER(name)=? AND date IN (?,?,?,?,?) AND user_id = ?
DailyDeleteWeek(tbl, name, we, uid) ==
  BagDelete(tbl, {r \in DOMAIN tbl :
                    ToLower(r.name) = name /\ r.date \in WeekDates(we) /\ r.user_id = uid})

\* the first loop of handleSave7R from row i on: stat lookup and validation
RECURSIVE Save7RValidate(_, _)
Save7RValidate(rows, i) ==
  IF i > Len(rows) THEN [result |-> "OK", pos |-> 0]
  ELSE IF ~StatExists(rows[i].StatID) THEN [result |-> "StatNotFound", pos |-> i]
  ELSE IF ~validateDailyStatByType(stats[rows[i].StatID].value_type, rows[i])
    THEN [result |-> "InvalidValue", pos |-> i]
  ELSE Save7RValidate(rows, i + 1)

\* the inserts of one row of handleSave7R: every non-empty day cell
RECURSIVE Save7RDays(_, _, _, _, _, _)
Save7RDays(tx, name, uid, we, row, k) ==
  IF k > Len(Days) THEN Step("OK", 0, tx)
  ELSE LET raw == row[Days[k]]
           sv == DailyStoreVal(raw)
       IN IF IsEmpty(raw) THEN Save7RDays(tx, name, uid, we, row, k + 1)
          ELSE IF sv.err THEN Step("InvalidValue", 0, tx)
          ELSE Save7RDays(BagInsert(tx, DailyRow(name, dates(we)[Days[k]], sv.val, uid)),
                          name, uid, we, row, k + 1)

\* the second loop of handleSave7R from row i on: delete the week, insert the days
RECURSIVE Save7RWrite(_, _, _, _, _)
Save7RWrite(tx, uid, we, rows, i) ==
  IF i > Len(rows) THEN Step("OK", 0, tx)
  ELSE IF ~StatExists(rows[i].StatID) THEN Step("StatNotFound", i, tx)
  ELSE LET st == stats[rows[i].StatID]
           nameLower == ToLower(st.short_id)
       IN IF ~IsPersonal(st.type) THEN Step("InvalidScope", i, tx)
          ELSE LET d == Save7RDays(DailyDeleteWeek(tx, nameLower, we, uid),
                                   nameLower, uid, we, rows[i], 1)
               IN IF d.result # "OK" THEN Step(d.result, i, d.tx)
                  ELSE Save7RWrite(d.tx, uid, we, rows, i + 1)

\* a handler whose error paths return without tx.Rollback() undoing the
\* statements already executed
KeepPartialTx(tbl, r) == r.tx

\* the tx.Rollback() of every error path of handleSave7R's second loop, and
\* its tx.Commit(): the table its transaction leaves
Save7REndTx(tbl, r) == IF r.result = "OK" THEN r.tx ELSE tbl

\* POST /services/save7R
handleSave7R(tbl, uid, thisWeek, rows) ==
  IF ~checkIfValidWE(thisWeek) THEN Respond("InvalidDate", 0, tbl)
  ELSE LET v == Save7RValidate(rows, 1)
       IN IF v.result # "OK" THEN Respond(v.result, v.pos, tbl)
          ELSE LET r == Save7RWrite(tbl, uid, thisWeek, rows, 1)
               IN Respond(r.result, r.pos, Save7REndTx(tbl, r))

(***************************************************************************)
(* Requests                                                                *)
(***************************************************************************)
\* stat ids a batch row may name: three personal stats, a divisional stat and
\* an id no stat has; a single write may also name the main stat
StatIdInputs == {1, 2, 3, 4, 5}

LogStatIdInputs == StatIdInputs \cup {6}

\* week-ending strings: two Thursdays, a Friday, an unparseable string
WeekInputs == {7, 14, 8, 0 - 1}

Five == Dec(FALSE, 5000, 0)

OneFifty == Dec(FALSE, 150000, 0)

\* value strings: "", "abc", "5", "150"
RawInputs == {Empty, Garbage, Five, OneFifty}

WeeklyPayloadRow(id, we, v) == [StatID |-> id, Weekending |-> we, Value |-> v]

WeeklyRows == {WeeklyPayloadRow(id, we, v) : id \in StatIdInputs, we \in WeekInputs, v \in RawInputs}

\* rows that stand before the last row of a longer payload
WeeklyHeads == {WeeklyPayloadRow(1, 7, Five), WeeklyPayloadRow(2, 7, Five),
                WeeklyPayloadRow(1, 7, Garbage)}

\* last rows of a longer payload: the same key again, another stat, another
\* week, an invalid value, a divisional stat, a stat id that does not exist,
\* the main stat
WeeklyTails == {WeeklyPayloadRow(1, 7, OneFifty), WeeklyPayloadRow(2, 7, OneFifty),
                WeeklyPayloadRow(1, 14, Five), WeeklyPayloadRow(3, 7, Garbage),
                WeeklyPayloadRow(4, 7, Five), WeeklyPayloadRow(5, 7, Five),
                WeeklyPayloadRow(6, 7, Five)}

Save7RRow(id, thu, fri, mon, tue, wed, q) ==
  [StatID |-> id, Thursday |-> thu, Friday |-> fri, Monday |-> mon,
   Tuesday |-> tue, Wednesday |-> wed, Quota |-> q]

\* the day cells and quota of a grid row
DayPatterns ==
  {<<Empty, Empty, Empty, Empty, Empty, Empty>>,
   <<Five, Empty, Empty, Empty, Empty, Empty>>,
   <<Empty, Five, Empty, Empty, Empty, Empty>>,
   <<Empty, Empty, Five, Empty, Empty, Empty>>,
   <<Empty, Empty, Empty, Five, Empty, Empty>>,
   <<Empty, Empty, Empty, Empty, Five, Empty>>,
   <<OneFifty, Empty, Empty, Empty, Empty, Empty>>,
   <<Garbage, Empty, Empty, Empty, Empty, Empty>>,
   <<OneFifty, Empty, Five, Empty, Empty, Empty>>,
   <<Five, Empty, Empty, Empty, Garbage, Empty>>,
   <<Five, Empty, Empty, Empty, Empty, Five>>,
   <<Five, Empty, Empty, Empty, Empty, Garbage>>}

Save7RRows == {Save7RRow(id, p[1], p[2], p[3], p[4], p[5], p[6]) : id \in StatIdInputs, p \in DayPatterns}

Save7RHeads == {Save7RRow(1, Five, Empty, Empty, Empty, Empty, Empty),
                Save7RRow(3, Empty, Five, Empty, Empty, Empty, Empty)}

Save7RTails == {Save7RRow(1, OneFifty, Empty, Empty, Empty, Empty, Empty),
                Save7RRow(2, Five, Empty, Empty, Empty, Empty, Empty),
                Save7RRow(3, Garbage, Empty, Empty, Empty, Empty, Empty),
                Save7RRow(4, Five, Empty, Empty, Empty, Empty, Empty),
                Save7RRow(5, Five, Empty, Empty, Empty, Empty, Empty),
                Save7RRow(6, Five, Empty, Empty, Empty, Empty, Empty)}

\* payloads of up to MaxBatch rows: the empty payload, every single row, and
\* longer payloads made of head rows and a tail row
Batches(Heads, Rows, Tails) ==
  {<<>>} \cup {<<r>> : r \in Rows}
  \cup UNION {{h \o <<t>> : h \in [1..(n - 1) -> Heads], t \in Tails} : n \in 2..MaxBatch}

\* the two tables together stay within MaxRows rows
WithinBounds(w, d) == BagCardinality(w) + BagCardinality(d) <= MaxRows

(***************************************************************************)
(* What a request asks for, judged by the rules of the specification: the  *)
(* defects a request carries.  Recorded with the response in last.         *)
(***************************************************************************)
\* a value that is neither empty nor a number of the stat's value type
FormatDefect(v, valueType) ==
  /\ ~IsEmpty(v)
  /\ IF valueType = "number" THEN ~AtoiOK(v) ELSE ~ParseFloatOK(v)

\* a percentage outside [0,100]
RangeDefect(v, valueType) ==
  valueType = "percentage" /\ ParseFloatOK(v) /\ PctOutOfRange(v)

ItemDefects(uid, id, vals) ==
  IF ~StatExists(id) THEN {"notfound"}
  ELSE LET st == stats[id]
       IN (IF st.type # "personal" THEN {"scope"}
           ELSE IF uid \notin st.users THEN {"owner"} ELSE {})
          \cup (IF \E v \in vals : FormatDefect(v, st.value_type) THEN {"value"} ELSE {})
          \cup (IF \E v \in vals : RangeDefect(v, st.value_type) THEN {"range"} ELSE {})

RequestDefects(uid, weeks, items) ==
  (IF \E we \in weeks : ~checkIfValidWE(we) THEN {"date"} ELSE {})
  \cup UNION {ItemDefects(uid, it[1], it[2]) : it \in items}

\* no defect, the only defect, or several (with or without a scope defect)
Class(D) ==
  IF D = {} THEN "clean"
  ELSE IF Cardinality(D) = 1 THEN CHOOSE d \in D : TRUE
  ELSE IF "scope" \in D THEN "scope+"
  ELSE "multi"

Save7RCells(row) == {row[d] : d \in DOMAIN DayOffset} \cup {row.Quota}

NoCall == [op |-> "none", user |-> 0, result |-> "OK", pos |-> 0, cls |-> "clean"]

Called(op, uid, r, D) ==
  [op |-> op, user |-> uid, result |-> r.result, pos |-> r.pos, cls |-> Class(D)]

(***************************************************************************)
(* The handlers as requests served one at a time                           *)
(***************************************************************************)
NoProcs == <<>>

NoCalc == [fn |-> "none", kind |-> "none", lit |-> Empty, i |-> 0, q |-> 0,
           days |-> <<>>, err |-> FALSE, usd |-> 0, out |-> Empty]

\* no read has been answered
NoReply == [op |-> "none"]

\* no response is outstanding: requests are served one at a time
Idle == last.op = "none"

LogWeeklyStats ==
  \E uid \in Users, statID \in LogStatIdInputs, date \in WeekInputs, value \in RawInputs :
    LET r == handleLogWeeklyStats(weekly, uid, statID, date, value)
    IN /\ Idle
       /\ WithinBounds(r.tbl, daily)
       /\ weekly' = r.tbl
       /\ last' = Called("logWeekly", uid, r,
                         RequestDefects(uid, {date}, {<<statID, {value}>>}))
       /\ UNCHANGED <<stats, daily, procs, lockHolder, commits, calc, reply, users, statSeq>>

SaveWeeklyEdit ==
  \E uid \in Users, payload \in Batches(WeeklyHeads, WeeklyRows, WeeklyTails) :
    LET r == handleSaveWeeklyEdit(weekly, uid, payload)
    IN /\ Idle
       /\ WithinBounds(r.tbl, daily)
       /\ weekly' = r.tbl
       /\ last' = Called("saveWeeklyEdit", uid, r,
                         RequestDefects(uid, {payload[i].Weekending : i \in 1..Len(payload)},
                                        {<<payload[i].StatID, {payload[i].Value}>> :
                                           i \in 1..Len(payload)}))
       /\ UNCHANGED <<stats, daily, procs, lockHolder, commits, calc, reply, users, statSeq>>

Save7R ==
  \E uid \in Users, thisWeek \in WeekInputs, rows \in Batches(Save7RHeads, Save7RRows, Save7RTails) :
    LET r == handleSave7R(daily, uid, thisWeek, rows)
    IN /\ Idle
       /\ WithinBounds(weekly, r.tbl)
       /\ daily' = r.tbl
       /\ last' = Called("save7R", uid, r,
                         RequestDefects(uid, {thisWeek},
                                        {<<rows[i].StatID, Save7RCells(rows[i])>> :
                                           i \in 1..Len(rows)}))
       /\ UNCHANGED <<stats, weekly, procs, lockHolder, commits, calc, reply, users, statSeq>>

\* the response has been written and the handler has returned
Return ==
  /\ ~Idle
  /\ last' = NoCall
  /\ UNCHANGED <<stats, weekly, daily, procs, lockHolder, commits, calc, reply, users, statSeq>>

Init ==
  /\ stats = InitialStats
  /\ weekly = EmptyBag
  /\ daily = EmptyBag
  /\ last = NoCall
  /\ procs = NoProcs
  /\ lockHolder = 0
  /\ commits = <<>>
  /\ calc = NoCalc
  /\ reply = NoReply
  /\ users = UserRole
  /\ statSeq = LastStatId

Next == LogWeeklyStats \/ SaveWeeklyEdit \/ Save7R \/ Return

Spec == Init /\ [][Next]_vars

(***************************************************************************)
(* Properties of the write handlers (Spec)                                 *)
(***************************************************************************)
\* rows of weekly_stats of one stat and week-ending
WeeklyRowsOf(tbl, name, we) ==
  BagCount(tbl, {x \in DOMAIN tbl : ToLower(x.name) = name /\ x.week_ending = we})

\* rows of daily_stats of one stat and calendar date
DailyRowsOf(tbl, name, date) ==
  BagCount(tbl, {x \in DOMAIN tbl : ToLower(x.name) = name /\ x.date = date})

\* C1: after any sequence of writes through handleSave7R, handleLogWeeklyStats
\* and handleSaveWeeklyEdit, by any users and with any payloads, the store holds
\* at most one weekly row per (stat, week-ending) and at most one daily row per
\* (stat, date).
C1_OneRowPerKey ==
  /\ \A r \in DOMAIN weekly : WeeklyRowsOf(weekly, ToLower(r.name), r.week_ending) <= 1
  /\ \A r \in DOMAIN daily : DailyRowsOf(daily, ToLower(r.name), r.date) <= 1

\* the same single weekly write again leaves the table as the first left it,
\* with one row of the stat and week, holding the value
LogWeeklyTwice(uid, statID, date, value) ==
  LET once == handleLogWeeklyStats(weekly, uid, statID, date, value)
      twice == handleLogWeeklyStats(once.tbl, uid, statID, date, value)
      name == ToLower(stats[statID].short_id)
  IN once.result = "OK" =>
       /\ twice.result = "OK"
       /\ twice.tbl = once.tbl
       /\ WeeklyRowsOf(twice.tbl, name, date) = 1
       /\ \A r \in DOMAIN twice.tbl :
            (ToLower(r.name) = name /\ r.week_ending = date)
              => r.value = LogWeeklyRow(uid, statID, date, value).value

\* the same one-row daily grid again leaves the table as the first left it,
\* with one row of the stat for each day that has a value
Save7RTwice(uid, thisWeek, row) ==
  LET once == handleSave7R(daily, uid, thisWeek, <<row>>)
      twice == handleSave7R(once.tbl, uid, thisWeek, <<row>>)
      name == ToLower(stats[row.StatID].short_id)
  IN once.result = "OK" =>
       /\ twice.result = "OK"
       /\ twice.tbl = once.tbl
       /\ \A d \in DOMAIN DayOffset :
            ~IsEmpty(row[d]) => DailyRowsOf(twice.tbl, name, dates(thisWeek)[d]) = 1

\* C3: issuing the same successful write (same actor, stat, period and raw
\* value) twice in a row through handleLogWeeklyStats or handleSave7R leaves the
\* store as it was after the first call, with one row for the key holding the
\* value.
C3_WriteIdempotent ==
  /\ \A uid \in Users, statID \in LogStatIdInputs, date \in WeekInputs, value \in RawInputs :
       LogWeeklyTwice(uid, statID, date, value)
  /\ \A uid \in Users, thisWeek \in WeekInputs, row \in Save7RRows :
       Save7RTwice(uid, thisWeek, row)

\* a step that serves a request
Served == last.op = "none" /\ last'.op # "none"

StoreUnchanged == weekly' = weekly /\ daily' = daily

\* C4: whenever handleSave7R or handleSaveWeeklyEdit returns an error because a
\* row of the batch has an invalid value, names a stat id that does not exist or
\* names a non-personal stat, the daily and weekly tables are as they were
\* before the call, whatever the position of the failing row.
C4_BatchAllOrNone ==
  [][(/\ Served
      /\ last'.op \in {"saveWeeklyEdit", "save7R"}
      /\ last'.result \in {"InvalidValue", "StatNotFound", "InvalidScope"})
       => StoreUnchanged]_vars

\* a batch has failed at its second row, after statements of its first row ran
\* in the transaction, and the actor's rows are in the table
C4_FailedAtSecondRow ==
  /\ last.op = "save7R"
  /\ last.cls = "scope"
  /\ last.result = "InvalidScope"
  /\ last.pos = 2
  /\ \E r \in DOMAIN daily : r.user_id = last.user

\* users stat_user_assignments assigns to the stat with this lower-cased code
AssignedUsers(name) ==
  UNION {stats[id].users : id \in {i \in DOMAIN stats : ToLower(stats[i].short_id) = name}}

\* C5: a write through handleLogWeeklyStats, handleSaveWeeklyEdit or
\* handleSave7R by an actor who is not the assigned user of the personal stat
\* returns a scope error, and no row of that actor is written for the stat.
C5_OnlyAssignedUserWrites ==
  /\ (last.op # "none" /\ last.cls = "owner") => last.result = "InvalidScope"
  /\ \A r \in DOMAIN weekly \cup DOMAIN daily : r.user_id \in AssignedUsers(r.name)

\* the request served named a divisional or main stat
NamedNonPersonal(call) == call.op # "none" /\ call.cls \in {"scope", "scope+"}

C7_PercentageRange ==
  /\ (last.op # "none" /\ last.cls = "range") => last.result = "InvalidValue"
  /\ \A r \in DOMAIN weekly \cup DOMAIN daily :
       r.name = "pct" => (r.value >= 0 /\ r.value <= 10000)

(***************************************************************************)
(* The value codec and the quota helpers applied to bounded inputs         *)
(***************************************************************************)
\* a literal written with nfrac fractional digits has no digit beyond them
WrittenWith(thou, nfrac) ==
  CASE nfrac = 0 -> thou % 1000 = 0
    [] nfrac = 1 -> thou % 100 = 0
    [] nfrac = 2 -> thou % 10 = 0
    [] OTHER -> TRUE

\* "", "abc" and every decimal string up to MaxThou thousandths, of either
\* sign, with zero to three fractional digits
CurrencyLiterals ==
  {Empty, Garbage}
  \cup {l \in {Dec(neg, thou, nfrac) : neg \in BOOLEAN, thou \in 0..MaxThou, nfrac \in 0..3} :
          WrittenWith(l.thou, l.nfrac)}

MoneyArg(s) == [NoCalc EXCEPT !.fn = "arg", !.kind = "money", !.lit = s]

QuotaArg(i, q) == [NoCalc EXCEPT !.fn = "arg", !.kind = "quota", !.i = i, !.q = q]

\* USD.String(MoneyToUSD(StringToMoney(s)))
CalcStringToMoney ==
  /\ calc.fn = "arg" /\ calc.kind = "money"
  /\ LET m == StringToMoney(calc.lit)
     IN calc' = [calc EXCEPT !.fn = "StringToMoney", !.err = m.err,
                             !.usd = IF m.err THEN 0 ELSE MoneyToUSD(m),
                             !.out = IF m.err THEN Empty ELSE USDString(MoneyToUSD(m))]
  /\ UNCHANGED <<stats, weekly, daily, last, procs, lockHolder, commits, reply, users, statSeq>>

\* GetQuotaInt(i, q), q the decimal string of an integer
CalcGetQuotaInt ==
  /\ calc.fn = "arg" /\ calc.kind = "quota"
  /\ calc' = [calc EXCEPT !.fn = "GetQuotaInt", !.usd = GetQuotaInt(calc.i, calc.q)]
  /\ UNCHANGED <<stats, weekly, daily, last, procs, lockHolder, commits, reply, users, statSeq>>

\* GetQuotaFloat(i, q), q the decimal string of q cents; the result in cents
CalcGetQuotaFloat ==
  /\ calc.fn = "arg" /\ calc.kind = "quota"
  /\ calc' = [calc EXCEPT !.fn = "GetQuotaFloat", !.usd = GetQuotaFloat(calc.i, calc.q)]
  /\ UNCHANGED <<stats, weekly, daily, last, procs, lockHolder, commits, reply, users, statSeq>>

\* CumWeekInt(args...): "" counts as "0"; the first strconv.Atoi error ends it
RECURSIVE CumWeekInt(_)
CumWeekInt(args) ==
  IF Len(args) = 0 THEN [err |-> FALSE, val |-> 0]
  ELSE LET v == Head(args)
           rest == CumWeekInt(Tail(args))
       IN IF ~IsEmpty(v) /\ ~AtoiOK(v) THEN [err |-> TRUE, val |-> 0]
          ELSE IF rest.err THEN rest
          ELSE [err |-> FALSE, val |-> (IF IsEmpty(v) THEN 0 ELSE Atoi(v)) + rest.val]

\* CumWeekFloat(args...): the sum of MoneyToUSD(StringToMoney(v)), in cents
RECURSIVE CumWeekFloat(_)
CumWeekFloat(args) ==
  IF Len(args) = 0 THEN [err |-> FALSE, val |-> 0]
  ELSE LET m == StringToMoney(Head(args))
           rest == CumWeekFloat(Tail(args))
       IN IF m.err THEN [err |-> TRUE, val |-> 0]
          ELSE IF rest.err THEN rest
          ELSE [err |-> FALSE, val |-> MoneyToUSD(m) + rest.val]

\* the arguments of the cumulative through day k: the first k of the five days
FirstDays(days, k) == SubSeq(days, 1, k)

\* daily count strings: "", "0", "5", "-3"
CumIntValues == {Empty, Dec(FALSE, 0, 0), Dec(FALSE, 5000, 0), Dec(TRUE, 3000, 0)}

\* daily currency strings: "", "1.00", "0.50", "0.25", "-1.50"
CumMoneyValues == {Empty, Dec(FALSE, 1000, 2), Dec(FALSE, 500, 2), Dec(FALSE, 250, 2),
                   Dec(TRUE, 1500, 2)}

CumArg(kind, days, k) == [NoCalc EXCEPT !.fn = "arg", !.kind = kind, !.days = days, !.i = k]

\* CumWeekInt(first k days)
CalcCumWeekInt ==
  /\ calc.fn = "arg" /\ calc.kind = "cumInt"
  /\ LET c == CumWeekInt(FirstDays(calc.days, calc.i))
     IN calc' = [calc EXCEPT !.fn = "CumWeekInt", !.err = c.err, !.usd = c.val]
  /\ UNCHANGED <<stats, weekly, daily, last, procs, lockHolder, commits, reply, users, statSeq>>

\* CumWeekFloat(first k days), the result in cents
CalcCumWeekFloat ==
  /\ calc.fn = "arg" /\ calc.kind = "cumFloat"
  /\ LET c == CumWeekFloat(FirstDays(calc.days, calc.i))
     IN calc' = [calc EXCEPT !.fn = "CumWeekFloat", !.err = c.err, !.usd = c.val]
  /\ UNCHANGED <<stats, weekly, daily, last, procs, lockHolder, commits, reply, users, statSeq>>

InitCalc ==
  /\ stats = InitialStats
  /\ weekly = EmptyBag
  /\ daily = EmptyBag
  /\ last = NoCall
  /\ procs = NoProcs
  /\ lockHolder = 0
  /\ commits = <<>>
  /\ reply = NoReply
  /\ users = UserRole
  /\ statSeq = LastStatId
  /\ calc \in {MoneyArg(s) : s \in CurrencyLiterals}
              \cup {QuotaArg(i, q) : i \in 1..5, q \in (0 - MaxQuota)..MaxQuota}
              \cup {CumArg("cumInt", days, k) : days \in [1..5 -> CumIntValues], k \in 0..5}
              \cup {CumArg("cumFloat", days, k) : days \in [1..5 -> CumMoneyValues], k \in 0..5}

NextCalc ==
  \/ CalcStringToMoney
  \/ CalcGetQuotaInt
  \/ CalcGetQuotaFloat
  \/ CalcCumWeekInt
  \/ CalcCumWeekFloat

SpecCalc == InitCalc /\ [][NextCalc]_vars

(***************************************************************************)
(* Two handleLogWeeklyStats requests served concurrently, statement by     *)
(* statement.  database/sql gives each transaction its own connection;     *)
(* DB.Begin() is a deferred BEGIN, so the DELETE, the transaction's first  *)
(* statement, takes SQLite's write lock, and a connection that finds the   *)
(* lock taken waits for it or gives up with "database is locked".  What a  *)
(* transaction has written is visible to others from its commit on.        *)
(***************************************************************************)
ReqIds == {1, 2}

ConcRequest(uid, statID, date, value) ==
  [pc |-> "start", uid |-> uid, statID |-> statID, date |-> date, value |-> value,
   tx |-> EmptyBag]

ConcRequests ==
  {ConcRequest(uid, statID, date, value) :
     uid \in Users, statID \in {1, 2, 4}, date \in {7, 14}, value \in {Five, OneFifty}}

\* the checks before DB.Begin(): webFail and return, or DB.Begin()
ConcCheck(p) ==
  /\ procs[p].pc = "start"
  /\ procs' = [procs EXCEPT ![p].pc =
                 IF LogWeeklyCheck(procs[p].statID, procs[p].date, procs[p].value) = "OK"
                   THEN "begun" ELSE "failed"]
  /\ UNCHANGED <<stats, weekly, daily, last, lockHolder, commits, calc, reply, users, statSeq>>

\* tx.Exec(DELETE ...) with the write lock free
ConcDelete(p) ==
  /\ procs[p].pc = "begun"
  /\ lockHolder = 0
  /\ lockHolder' = p
  /\ procs' = [procs EXCEPT ![p].pc = "deleted",
                            ![p].tx = WeeklyDeleteKey(weekly, ToLower(stats[procs[p].statID].short_id),
                                                      procs[p].date, procs[p].uid)]
  /\ UNCHANGED <<stats, weekly, daily, last, commits, calc, reply, users, statSeq>>

\* tx.Exec(DELETE ...) gives up waiting for the lock: tx.Rollback() and webFail
ConcBusy(p) ==
  /\ procs[p].pc = "begun"
  /\ lockHolder \notin {0, p}
  /\ procs' = [procs EXCEPT ![p].pc = "failed"]
  /\ UNCHANGED <<stats, weekly, daily, last, lockHolder, commits, calc, reply, users, statSeq>>

\* tx.Exec(INSERT ...)
ConcInsert(p) ==
  /\ procs[p].pc = "deleted"
  /\ procs' = [procs EXCEPT ![p].pc = "inserted",
                            ![p].tx = BagInsert(procs[p].tx,
                                                LogWeeklyRow(procs[p].uid, procs[p].statID,
                                                             procs[p].date, procs[p].value))]
  /\ UNCHANGED <<stats, weekly, daily, last, lockHolder, commits, calc, reply, users, statSeq>>

\* tx.Commit()
ConcCommit(p) ==
  /\ procs[p].pc = "inserted"
  /\ weekly' = procs[p].tx
  /\ lockHolder' = 0
  /\ commits' = Append(commits, p)
  /\ procs' = [procs EXCEPT ![p].pc = "committed", ![p].tx = EmptyBag]
  /\ UNCHANGED <<stats, daily, last, calc, reply, users, statSeq>>

InitConc ==
  /\ stats = InitialStats
  /\ weekly = EmptyBag
  /\ daily = EmptyBag
  /\ last = NoCall
  /\ procs \in [ReqIds -> ConcRequests]
  /\ lockHolder = 0
  /\ commits = <<>>
  /\ calc = NoCalc
  /\ reply = NoReply
  /\ users = UserRole
  /\ statSeq = LastStatId

NextConc ==
  \E p \in ReqIds :
    ConcCheck(p) \/ ConcDelete(p) \/ ConcBusy(p) \/ ConcInsert(p) \/ ConcCommit(p)

SpecConc == InitConc /\ [][NextConc]_vars

(***************************************************************************)
(* Properties of the value codec and the quota helpers (SpecCalc)          *)
(***************************************************************************)
\* C8: for every currency string s with at most two fractional digits that
\* StringToMoney accepts, USD.String() of MoneyToUSD(StringToMoney(s)) is
\* numerically equal to s.
C8_CurrencyRoundTrip ==
  (calc.fn = "StringToMoney" /\ ~calc.err /\ calc.lit.k = "dec" /\ calc.lit.nfrac <= 2)
    => SignedThou(calc.out) = SignedThou(calc.lit)

\* cents of a decimal literal rounded half-up on the hundredths digit, the sign
\* of the literal kept
HalfUpCents(s) ==
  IF s.neg THEN 0 - ((s.thou + 5) \div 10) ELSE (s.thou + 5) \div 10

\* C9: for every decimal input given in thousandths, the integer
\* MoneyToUSD(StringToMoney(s)) stores is the amount in cents rounded half-up on
\* the hundredths digit, with the sign of the input.
C9_CurrencyCentsHalfUp ==
  (calc.fn = "StringToMoney" /\ ~calc.err /\ calc.lit.k = "dec")
    => calc.usd = HalfUpCents(calc.lit)

\* C10: for every weekly quota q, the quota of day index 5 is q, for
\* GetQuotaInt (q a count) and for GetQuotaFloat (q in cents).
C10_QuotaDayFiveIsWeek ==
  (calc.fn \in {"GetQuotaInt", "GetQuotaFloat"} /\ calc.i = 5) => calc.usd = calc.q

(***************************************************************************)
(* Properties of concurrent writes (SpecConc)                              *)
(***************************************************************************)
\* both requests have committed and they name the same stat and week
BothCommittedSameKey ==
  /\ DOMAIN procs = ReqIds
  /\ \A p \in ReqIds : procs[p].pc = "committed"
  /\ procs[1].statID = procs[2].statID
  /\ procs[1].date = procs[2].date

\* C2: when two write requests for the same (stat, week) run concurrently and
\* both have committed, weekly_stats holds exactly one row for that stat and
\* week, and it carries the value of the request that committed last.
C2_LastCommitterWins ==
  BothCommittedSameKey =>
    LET w == procs[commits[Len(commits)]]
        name == ToLower(stats[w.statID].short_id)
    IN /\ WeeklyRowsOf(weekly, name, w.date) = 1
       /\ \A r \in DOMAIN weekly :
            (ToLower(r.name) = name /\ r.week_ending = w.date)
              => r.value = LogWeeklyRow(w.uid, w.statID, w.date, w.value).value

\* C11: for every day index i in 1..5 and every non-negative weekly quota q,
\* GetQuotaInt and GetQuotaFloat return q * i / 5 rounded half-up in the
\* value's integer domain: floor((2 * q * i + 5) / 10).
C11_QuotaProRataHalfUp ==
  (calc.fn \in {"GetQuotaInt", "GetQuotaFloat"} /\ calc.q >= 0)
    => calc.usd = (2 * calc.q * calc.i + 5) \div 10

\* the value of a daily count string, an empty day counting as zero
CountOf(v) == IF IsEmpty(v) THEN 0 ELSE Atoi(v)

\* the cents of a daily currency string, an empty day counting as zero
CentsOf(v) == IF IsEmpty(v) THEN 0 ELSE HalfUpCents(v)

RECURSIVE SumCounts(_, _)
SumCounts(days, k) == IF k = 0 THEN 0 ELSE SumCounts(days, k - 1) + CountOf(days[k])

RECURSIVE SumCents(_, _)
SumCents(days, k) == IF k = 0 THEN 0 ELSE SumCents(days, k - 1) + CentsOf(days[k])

\* C12: for every k in 0..5 and five daily raw values, each empty or valid, the
\* cumulative through day k of CumWeekInt (counts) and of CumWeekFloat (cents)
\* is the sum of the scaled values of the first k days, an empty day counting
\* as zero.
C12_CumulativeIsPrefixSum ==
  /\ calc.fn = "CumWeekInt" => (~calc.err /\ calc.usd = SumCounts(calc.days, calc.i))
  /\ calc.fn = "CumWeekFloat" => (~calc.err /\ calc.usd = SumCents(calc.days, calc.i))

(***************************************************************************)
(* Week-ending dates of the stored rows (Spec)                             *)
(***************************************************************************)
\* the date is one of the five dates handleSave7R computes from a Thursday
OnWeekOfThursday(date) ==
  \E d \in DOMAIN DayOffset :
    date - DayOffset[d] >= 0 /\ Weekday(date - DayOffset[d]) = Thursday

TrustSession(requireRole, sessionUser) ==
  IF sessionUser \notin DOMAIN UserRole
    THEN [ok |-> FALSE, status |-> "Unauthorized", ctx |-> <<>>]
  ELSE IF requireRole # "" /\ UserRole[sessionUser] # requireRole
    THEN [ok |-> FALSE, status |-> "Forbidden", ctx |-> <<>>]
  ELSE [ok |-> TRUE, status |-> "OK", ctx |-> [company_id |-> "co", user_id |-> sessionUser]]

\* AuthMiddleware: the request context handed to the handler, or the refusal.
\* The context carries company_id and user_id and nothing else.
AuthMiddleware(requireRole, sessionUser) ==
  IF sessionUser \notin DOMAIN users
    THEN [ok |-> FALSE, status |-> "Unauthorized", ctx |-> <<>>]
  ELSE IF requireRole # "" /\ users[sessionUser] # requireRole
    THEN [ok |-> FALSE, status |-> "Forbidden", ctx |-> <<>>]
  ELSE [ok |-> TRUE, status |-> "OK", ctx |-> [company_id |-> "co", user_id |-> sessionUser]]

\* ids of the stats whose short_id matches the code without regard to case
StatsByShort(statShort) ==
  {id \in DOMAIN stats : ToLower(stats[id].short_id) = ToLower(statShort)}

\* resolveStatIdentity: stat_id first, the short code as the fallback
resolveStatIdentity(statIDStr, statShort) ==
  IF ~IsEmpty(statIDStr)
    THEN IF ~AtoiOK(statIDStr) \/ ~StatExists(Atoi(statIDStr))
           THEN [err |-> TRUE, short |-> "", type |-> ""]
         ELSE [err |-> FALSE, short |-> ToLower(stats[Atoi(statIDStr)].short_id),
               type |-> stats[Atoi(statIDStr)].type]
  ELSE IF statShort # ""
    THEN IF StatsByShort(statShort) = {}
           THEN [err |-> FALSE, short |-> ToLower(statShort), type |-> "personal"]
         ELSE [err |-> FALSE, short |-> ToLower(statShort),
               type |-> stats[CHOOSE id \in StatsByShort(statShort) : TRUE].type]
  ELSE [err |-> TRUE, short |-> "", type |-> ""]

\* r.Context().Value("role").(string) yields the role and it is "admin"
SessionIsAdmin(ctx) == "role" \in DOMAIN ctx /\ ctx["role"] = "admin"

\* the query without its user_id condition: the rows of the name of every user
SelectAnyUser(tbl, name, uid) ==
  [r \in {x \in DOMAIN tbl : ToLower(x.name) = name} |-> tbl[r]]

\* SELECT week_ending, value FROM weekly_stats WHERE LOWER(name)=? AND user_id = ?
WeeklySelect(tbl, name, uid) ==
  [r \in {x \in DOMAIN tbl : ToLower(x.name) = name /\ x.user_id = uid} |-> tbl[r]]

\* a query without ORDER BY: the selected rows in any order
AnyOrder(sel) ==
  {q \in [1..BagCardinality(sel) -> DOMAIN sel] :
     \A r \in DOMAIN sel : Cardinality({i \in DOMAIN q : q[i] = r}) = sel[r]}

\* the orders in which ORDER BY week_ending may return the selected rows:
\* every row as often as it is stored, week-endings never descending
OrderByWeekEnding(sel) ==
  {q \in [1..BagCardinality(sel) -> DOMAIN sel] :
     /\ \A r \in DOMAIN sel : Cardinality({i \in DOMAIN q : q[i] = r}) = sel[r]
     /\ \A i \in DOMAIN q : \A j \in DOMAIN q :
          i < j => q[i].week_ending <= q[j].week_ending}

\* the JSON element of one row: Value is float64(v) / 100.0, kept as the
\* number of hundredths
WeeklyValue(r) == [Weekending |-> r.week_ending, Value |-> r.value]

\* GET /services/getWeeklyStats before its query: the status and the user whose
\* rows are read
GetWeeklyTarget(ctx, statIDStr, statShort, userIDParam) ==
  IF IsEmpty(statIDStr) /\ statShort = "" THEN [result |-> "MissingStat", uid |-> 0]
  ELSE IF resolveStatIdentity(statIDStr, statShort).err THEN [result |-> "ResolveFailed", uid |-> 0]
  ELSE IF IsEmpty(userIDParam) THEN [result |-> "OK", uid |-> ctx.user_id]
  ELSE IF ~SessionIsAdmin(ctx) THEN [result |-> "Forbidden", uid |-> 0]
  ELSE IF ~AtoiOK(userIDParam) THEN [result |-> "InvalidUserId", uid |-> 0]
  ELSE [result |-> "OK", uid |-> Atoi(userIDParam)]

\* the bodies GET /services/getWeeklyStats may write
handleGetWeeklyStats(tbl, ctx, statIDStr, statShort, userIDParam) ==
  LET t == GetWeeklyTarget(ctx, statIDStr, statShort, userIDParam)
      id == resolveStatIdentity(statIDStr, statShort)
  IN IF t.result # "OK" THEN {[result |-> t.result, out |-> <<>>]}
     ELSE IF id.type = "personal"
       THEN {[result |-> "OK", out |-> [i \in DOMAIN q |-> WeeklyValue(q[i])]] :
               q \in OrderByWeekEnding(WeeklySelect(tbl, id.short, t.uid))}
     ELSE {[result |-> "OK", out |-> <<>>]}

\* strings.ToUpper on the short codes in use
ToUpper(s) == CASE s = "gi" -> "GI"
                [] s = "pct" -> "PCT"
                [] s = "vsd" -> "VSD"
                [] s = "div" -> "DIV"
                [] s = "main" -> "MAIN"
                [] s = "nope" -> "NOPE"
                [] OTHER -> s

\* fmt.Sprintf("%d", v)
SprintfD(v) == Dec(v < 0, Abs(v) * 1000, 0)

\* the stat lookup of handleGetDailyStats: by stat_id, else by short code
GetDailyLookup(statIDStr, statShort) ==
  IF ~IsEmpty(statIDStr)
    THEN IF ~AtoiOK(statIDStr) THEN [result |-> "InvalidStatId"]
         ELSE IF ~StatExists(Atoi(statIDStr)) THEN [result |-> "StatNotFound"]
         ELSE LET st == stats[Atoi(statIDStr)]
              IN [result |-> "OK", nameLower |-> ToLower(st.short_id),
                  statType |-> st.type, valueType |-> st.value_type]
  ELSE IF StatsByShort(statShort) = {}
    THEN [result |-> "OK", nameLower |-> ToLower(statShort),
          statType |-> "personal", valueType |-> "number"]
  ELSE LET st == stats[CHOOSE id \in StatsByShort(statShort) : TRUE]
       IN [result |-> "OK", nameLower |-> ToLower(st.short_id),
           statType |-> st.type, valueType |-> st.value_type]

\* the strings one day's cell may hold: SELECT value FROM daily_stats WHERE
\* LOWER(name)=? AND date=? AND user_id=? LIMIT 1, formatted by value type;
\* the empty string when no row matches
DayCell(tbl, name, date, uid, valueType) ==
  LET found == {r \in DOMAIN tbl : ToLower(r.name) = name /\ r.date = date /\ r.user_id = uid}
  IN IF found = {} THEN {Empty}
     ELSE {IF valueType = "currency" THEN USDString(r.value) ELSE SprintfD(r.value) :
             r \in found}

\* a day map whose Monday is the fourth day of the week, not the fifth
ShiftedDates(we) == [d \in DOMAIN DayOffset |-> IF d = "Monday" THEN we + 3 ELSE we + DayOffset[d]]

\* the dates map of handleGetDailyStats: Thursday = thisWeek, Friday +1,
\* Monday +4, Tuesday +5, Wednesday +6
ReadDates(we) ==
  [Thursday |-> we, Friday |-> we + 1, Monday |-> we + 4, Tuesday |-> we + 5,
   Wednesday |-> we + 6]

\* a read that reports the stored Thursday value as the quota
BodiesWithQuota(tbl, l, we, uid) ==
  {[Name |-> ToUpper(l.nameLower), Quota |-> c, Thursday |-> c, Friday |-> Empty,
    Monday |-> Empty, Tuesday |-> Empty, Wednesday |-> Empty] :
     c \in DayCell(tbl, l.nameLower, we, uid, l.valueType)}

\* the DailyStat bodies handleGetDailyStats may write for a resolved stat
DailyBodies(tbl, l, we, uid) ==
  LET cells == [d \in DOMAIN DayOffset |->
                  IF l.statType = "personal"
                    THEN DayCell(tbl, l.nameLower, ReadDates(we)[d], uid, l.valueType)
                  ELSE {Empty}]
  IN {[Name |-> ToUpper(l.nameLower), Quota |-> Empty, Thursday |-> thu, Friday |-> fri,
       Monday |-> mon, Tuesday |-> tue, Wednesday |-> wed] :
        thu \in cells.Thursday, fri \in cells.Friday, mon \in cells.Monday,
        tue \in cells.Tuesday, wed \in cells.Wednesday}

\* the responses GET /services/getDailyStats may write
handleGetDailyStats(tbl, ctx, thisWeek, statIDStr, statShort) ==
  IF IsEmpty(statIDStr) /\ statShort = "" THEN {[result |-> "MissingParams", out |-> <<>>]}
  ELSE IF ~checkIfValidWE(thisWeek) THEN {[result |-> "InvalidDate", out |-> <<>>]}
  ELSE LET l == GetDailyLookup(statIDStr, statShort)
       IN IF l.result # "OK" THEN {[result |-> l.result, out |-> <<>>]}
          ELSE {[result |-> "OK", out |-> b] : b \in DailyBodies(tbl, l, thisWeek, ctx.user_id)}

(***************************************************************************)
(* Reads of a store that single writes have filled (SpecRead)              *)
(***************************************************************************)
\* session user ids: none, the admin, the ordinary user
SessionInputs == {0, 1, 2}

\* stat_id and user_id parameters: absent, "2", "5", "abc"
TwoStr == Dec(FALSE, 2000, 0)

FiveStr == Dec(FALSE, 5000, 0)

IdParamInputs == {Empty, TwoStr, FiveStr, Garbage}

\* stat parameters: absent, the short code of a stat, a code no stat has
ShortInputs == {"", "PCT", "NOPE"}

\* the stats, weeks and values the seeding writes use
SeedStatIds == {1, 2}

SeedWeeks == {7, 14}

SeedValues == {Five, OneFifty}

\* the day cells and quota of the seeding grids: Thursday; Thursday with a
\* quota; Friday; Thursday and Monday
SeedPatterns ==
  {<<Five, Empty, Empty, Empty, Empty, Empty>>,
   <<Five, Empty, Empty, Empty, Empty, Five>>,
   <<Empty, Five, Empty, Empty, Empty, Empty>>,
   <<OneFifty, Empty, Five, Empty, Empty, Empty>>}

ReadRequest(op, sessionUser, date, statIDStr, statShort, userIDParam) ==
  [op |-> op, user |-> sessionUser, date |-> date, stat_id |-> statIDStr,
   stat |-> statShort, user_id |-> userIDParam]

\* the reply to a read: the request, the status and the body
Replied(req, r) == [op |-> req.op, req |-> req, result |-> r.result, out |-> r.out]

Unauthorized == [result |-> "Unauthorized", out |-> <<>>]

\* no reply is outstanding
Quiet == reply.op = "none"

WriteWeekly ==
  \E uid \in Users, statID \in SeedStatIds, date \in SeedWeeks, value \in SeedValues :
    LET r == handleLogWeeklyStats(weekly, uid, statID, date, value)
    IN /\ Quiet
       /\ WithinBounds(r.tbl, daily)
       /\ weekly' = r.tbl
       /\ UNCHANGED <<stats, daily, last, procs, lockHolder, commits, calc, reply, users, statSeq>>

WriteDaily ==
  \E uid \in Users, statID \in SeedStatIds, we \in SeedWeeks, p \in SeedPatterns :
    LET r == handleSave7R(daily, uid, we,
                          <<Save7RRow(statID, p[1], p[2], p[3], p[4], p[5], p[6])>>)
    IN /\ Quiet
       /\ WithinBounds(weekly, r.tbl)
       /\ daily' = r.tbl
       /\ UNCHANGED <<stats, weekly, last, procs, lockHolder, commits, calc, reply, users, statSeq>>

GetWeeklyStats ==
  \E sessionUser \in SessionInputs, statIDStr \in IdParamInputs, statShort \in ShortInputs,
     userIDParam \in IdParamInputs :
    LET a == AuthMiddleware("", sessionUser)
        req == ReadRequest("getWeekly", sessionUser, 0, statIDStr, statShort, userIDParam)
    IN /\ Quiet
       /\ \E r \in (IF a.ok
                      THEN handleGetWeeklyStats(weekly, a.ctx, statIDStr, statShort, userIDParam)
                    ELSE {Unauthorized}) :
            reply' = Replied(req, r)
       /\ UNCHANGED <<stats, weekly, daily, last, procs, lockHolder, commits, calc, users, statSeq>>

GetDailyStats ==
  \E sessionUser \in SessionInputs, thisWeek \in WeekInputs, statIDStr \in IdParamInputs,
     statShort \in ShortInputs :
    LET a == AuthMiddleware("", sessionUser)
        req == ReadRequest("getDaily", sessionUser, thisWeek, statIDStr, statShort, Empty)
    IN /\ Quiet
       /\ \E r \in (IF a.ok
                      THEN handleGetDailyStats(daily, a.ctx, thisWeek, statIDStr, statShort)
                    ELSE {Unauthorized}) :
            reply' = Replied(req, r)
       /\ UNCHANGED <<stats, weekly, daily, last, procs, lockHolder, commits, calc, users, statSeq>>

\* the reply has been written and the handler has returned
ReadReturn ==
  /\ ~Quiet
  /\ reply' = NoReply
  /\ UNCHANGED <<stats, weekly, daily, last, procs, lockHolder, commits, calc, users, statSeq>>

NextRead == WriteWeekly \/ WriteDaily \/ GetWeeklyStats \/ GetDailyStats \/ ReadReturn

SpecRead == Init /\ [][NextRead]_vars

(***************************************************************************)
(* Properties of the read handlers (SpecRead)                              *)
(***************************************************************************)
\* the read passed AuthMiddleware and, for the daily grid, the date check
ReadAdmitted ==
  /\ reply.op \in {"getWeekly", "getDaily"}
  /\ reply.req.user \in DOMAIN UserRole
  /\ reply.op = "getDaily" => checkIfValidWE(reply.req.date)

NotFoundResults == {"StatNotFound", "ResolveFailed", "InvalidStatId"}

\* C14: a read that names a stat only by a short code no stat has, and a read
\* that names a numeric stat id no stat has, are answered with an error of the
\* stat lookup; no reply is built from the metadata personal / number.
C14_NoFabricatedStat ==
  ReadAdmitted =>
    /\ (IsEmpty(reply.req.stat_id) /\ reply.req.stat # "" /\ StatsByShort(reply.req.stat) = {})
         => reply.result \in NotFoundResults
    /\ (AtoiOK(reply.req.stat_id) /\ ~StatExists(Atoi(reply.req.stat_id)))
         => reply.result \in NotFoundResults

\* the numeric id half of C14 alone
C14_UnknownIdFails ==
  (ReadAdmitted /\ AtoiOK(reply.req.stat_id) /\ ~StatExists(Atoi(reply.req.stat_id)))
    => reply.result \in NotFoundResults

\* the weekly rows the reply to a weekly read of user uid's series must list
SeriesOf(uid) ==
  WeeklySelect(weekly, resolveStatIdentity(reply.req.stat_id, reply.req.stat).short, uid)

\* C15: a weekly read by an admin that names a stat that resolves and carries a
\* numeric user_id is allowed and lists the rows of that user.
C15_AdminReadsOtherUser ==
  (/\ reply.op = "getWeekly"
   /\ reply.req.user \in DOMAIN UserRole
   /\ UserRole[reply.req.user] = "admin"
   /\ AtoiOK(reply.req.user_id)
   /\ ~resolveStatIdentity(reply.req.stat_id, reply.req.stat).err)
    => /\ reply.result = "OK"
       /\ Len(reply.out) = BagCardinality(SeriesOf(Atoi(reply.req.user_id)))

\* C16: the series a weekly read returns lists every stored row of the stat and
\* user once, with week-endings in ascending order.
C16_SeriesAscending ==
  (reply.op = "getWeekly" /\ reply.result = "OK")
    => /\ \A i \in DOMAIN reply.out : \A j \in DOMAIN reply.out :
            i < j => reply.out[i].Weekending <= reply.out[j].Weekending
       /\ IsEmpty(reply.req.user_id)
            => Len(reply.out) = BagCardinality(SeriesOf(reply.req.user))

\* a weekly read answered with a series of two different weeks
C16_TwoWeeksReturned ==
  /\ reply.op = "getWeekly" /\ reply.result = "OK"
  /\ Len(reply.out) >= 2
  /\ reply.out[1].Weekending < reply.out[2].Weekending

(***************************************************************************)
(* What a write leaves of the values stored before it (Spec)               *)
(***************************************************************************)
\* the grid row holds a non-empty value for the cell of stat name and date
SuppliesCell(thisWeek, row, name, date) ==
  /\ StatExists(row.StatID)
  /\ ToLower(stats[row.StatID].short_id) = name
  /\ \E d \in DOMAIN DayOffset : dates(thisWeek)[d] = date /\ ~IsEmpty(row[d])

\* C17: a handleSave7R request deletes no stored value: every daily row stored
\* before the request is still stored after it, unless the request holds a
\* non-empty value for the row's stat and date.
C17_EmptyCellKeepsValue ==
  \A uid \in Users, thisWeek \in WeekInputs, row \in Save7RRows :
    LET r == handleSave7R(daily, uid, thisWeek, <<row>>)
    IN \A x \in DOMAIN daily :
         ~SuppliesCell(thisWeek, row, ToLower(x.name), x.date)
           => (x \in DOMAIN r.tbl /\ r.tbl[x] >= daily[x])

\* C18: a handleLogWeeklyStats request with an empty value for a personal stat
\* and a Thursday week-ending is accepted and leaves weekly_stats as it was,
\* whatever the stat's value type.
C18_EmptyWeeklyIsNoValue ==
  \A uid \in Users, statID \in LogStatIdInputs, date \in WeekInputs :
    LET r == handleLogWeeklyStats(weekly, uid, statID, date, Empty)
    IN (checkIfValidWE(date) /\ StatExists(statID) /\ IsPersonal(stats[statID].type))
         => (r.result = "OK" /\ r.tbl = weekly)

\* two single weekly writes of one user to different (stat, week) keys: either
\* order leaves the same table, holding the row of each
LogWeeklyCommute ==
  \A uid \in Users, s1 \in LogStatIdInputs, s2 \in LogStatIdInputs,
     d1 \in WeekInputs, d2 \in WeekInputs, v1 \in {Five, OneFifty}, v2 \in {Five, OneFifty} :
    LET a == handleLogWeeklyStats(weekly, uid, s1, d1, v1)
        ab == handleLogWeeklyStats(a.tbl, uid, s2, d2, v2)
        b == handleLogWeeklyStats(weekly, uid, s2, d2, v2)
        ba == handleLogWeeklyStats(b.tbl, uid, s1, d1, v1)
    IN (<<s1, d1>> # <<s2, d2>> /\ a.result = "OK" /\ ab.result = "OK"
        /\ b.result = "OK" /\ ba.result = "OK")
         => /\ ab.tbl = ba.tbl
            /\ BagIn(LogWeeklyRow(uid, s1, d1, v1), ab.tbl)
            /\ BagIn(LogWeeklyRow(uid, s2, d2, v2), ab.tbl)

\* the row handleSaveWeeklyEdit inserts for a payload row
WeeklyEditRow(uid, row) ==
  WeeklyRow(ToLower(stats[row.StatID].short_id), row.Weekending,
            WeeklyStoreVal(row.Value, stats[row.StatID].value_type).val, uid)

\* two one-row handleSaveWeeklyEdit batches of one user for different
\* (stat, week) keys: either order leaves the same table, holding the row of each
WeeklyEditCommute ==
  \A uid \in Users, r1 \in WeeklyRows, r2 \in WeeklyRows :
    LET a == handleSaveWeeklyEdit(weekly, uid, <<r1>>)
        ab == handleSaveWeeklyEdit(a.tbl, uid, <<r2>>)
        b == handleSaveWeeklyEdit(weekly, uid, <<r2>>)
        ba == handleSaveWeeklyEdit(b.tbl, uid, <<r1>>)
    IN (<<r1.StatID, r1.Weekending>> # <<r2.StatID, r2.Weekending>>
        /\ ~IsEmpty(r1.Value) /\ ~IsEmpty(r2.Value)
        /\ a.result = "OK" /\ ab.result = "OK" /\ b.result = "OK" /\ ba.result = "OK")
         => /\ ab.tbl = ba.tbl
            /\ BagIn(WeeklyEditRow(uid, r1), ab.tbl)
            /\ BagIn(WeeklyEditRow(uid, r2), ab.tbl)

\* the (stat, date) keys a grid row holds a value for
GridKeys(thisWeek, row) ==
  {<<row.StatID, dates(thisWeek)[d]>> : d \in {e \in DOMAIN DayOffset : ~IsEmpty(row[e])}}

\* two one-row handleSave7R grids of one user for the same week with no
\* (stat, date) key in common: either order leaves the same table, with a row
\* for every key of both
Save7RCommute ==
  \A uid \in Users, thisWeek \in WeekInputs, r1 \in Save7RRows, r2 \in Save7RRows :
    LET a == handleSave7R(daily, uid, thisWeek, <<r1>>)
        ab == handleSave7R(a.tbl, uid, thisWeek, <<r2>>)
        b == handleSave7R(daily, uid, thisWeek, <<r2>>)
        ba == handleSave7R(b.tbl, uid, thisWeek, <<r1>>)
    IN (GridKeys(thisWeek, r1) \cap GridKeys(thisWeek, r2) = {}
        /\ a.result = "OK" /\ ab.result = "OK" /\ b.result = "OK" /\ ba.result = "OK")
         => /\ ab.tbl = ba.tbl
            /\ \A key \in GridKeys(thisWeek, r1) \cup GridKeys(thisWeek, r2) :
                 DailyRowsOf(ab.tbl, ToLower(stats[key[1]].short_id), key[2]) >= 1

\* C20: two successful writes by the same user that target different
\* (stat, period) keys leave the same store in either order, and the store
\* holds the value of each.
C20_DisjointWritesCommute == LogWeeklyCommute /\ WeeklyEditCommute /\ Save7RCommute

(***************************************************************************)
(* One write request served statement by statement, with its transaction   *)
(* (SpecTx).  DB.Begin(), each tx.Exec and tx.Commit() may return an       *)
(* error.  txn is the state of the request's transaction: "none" before    *)
(* DB.Begin(), "open" from DB.Begin() on, "committed" or "rolledback" once *)
(* tx.Commit() or tx.Rollback() has been called; a tx.Commit() that        *)
(* returns an error has ended the transaction without its writes.          *)
(***************************************************************************)
TxIds == {1}

TxRun(op, uid, we, rows) ==
  [op |-> op, uid |-> uid, we |-> we, rows |-> rows, pc |-> "start", i |-> 1,
   txn |-> "none", tbl |-> EmptyBag, result |-> "OK"]

\* a single weekly write is run as the one payload row it names
TxRuns ==
  {TxRun("logWeekly", uid, r.Weekending, <<r>>) : uid \in Users, r \in WeeklyRows}
  \cup {TxRun("saveWeeklyEdit", uid, 0, payload) :
          uid \in Users, payload \in Batches(WeeklyHeads, WeeklyRows, WeeklyTails)}
  \cup {TxRun("save7R", uid, we, rows) :
          uid \in Users, we \in WeekInputs, rows \in Batches(Save7RHeads, Save7RRows, Save7RTails)}

\* the handler writes its response and returns
TxReturn(t, result) == [t EXCEPT !.pc = "returned", !.result = result]

\* an error path that returns without calling tx.Rollback()
LeaveOpen(t, result) == TxReturn(t, result)

\* an error path after DB.Begin(): tx.Rollback(), webFail, return
RollbackReturn(t, result) == TxReturn([t EXCEPT !.txn = "rolledback"], result)

\* the result of the checks a handler makes before DB.Begin()
TxPrecheck(t) ==
  CASE t.op = "logWeekly" ->
         LogWeeklyCheck(t.rows[1].StatID, t.rows[1].Weekending, t.rows[1].Value)
    [] t.op = "saveWeeklyEdit" ->
         IF Len(t.rows) = 0 THEN "EmptyPayload"
         ELSE IF FirstBadDate(t.rows) # 0 THEN "InvalidDate" ELSE "OK"
    [] t.op = "save7R" ->
         IF ~checkIfValidWE(t.we) THEN "InvalidDate" ELSE Save7RValidate(t.rows, 1).result

\* the DELETE a weekly handler executes right after DB.Begin()
TxCleared(t) ==
  IF t.op = "logWeekly"
    THEN WeeklyDeleteKey(t.tbl, ToLower(stats[t.rows[1].StatID].short_id), t.we, t.uid)
  ELSE WeeklyDeleteWeeks(t.tbl, t.uid, {t.rows[j].Weekending : j \in 1..Len(t.rows)})

\* the statements of payload row i
TxRowStep(t) ==
  CASE t.op = "logWeekly" ->
         Step("OK", 0, BagInsert(t.tbl, LogWeeklyRow(t.uid, t.rows[1].StatID, t.we,
                                                     t.rows[1].Value)))
    [] t.op = "saveWeeklyEdit" -> WeeklyEditLoop(t.tbl, t.uid, <<t.rows[t.i]>>, 1)
    [] t.op = "save7R" -> Save7RWrite(t.tbl, t.uid, t.we, <<t.rows[t.i]>>, 1)

\* the checks before DB.Begin(): webFail and return, or go on to DB.Begin()
TxCheck(p) ==
  /\ procs[p].pc = "start"
  /\ procs' = [procs EXCEPT ![p] =
                 IF TxPrecheck(procs[p]) = "OK" THEN [procs[p] EXCEPT !.pc = "begin"]
                 ELSE TxReturn(procs[p], TxPrecheck(procs[p]))]
  /\ UNCHANGED <<stats, weekly, daily, last, lockHolder, commits, calc, reply, users, statSeq>>

\* DB.Begin(): the transaction is open, or the error is reported
TxBegin(p) ==
  /\ procs[p].pc = "begin"
  /\ \E ok \in BOOLEAN :
       procs' = [procs EXCEPT ![p] =
                   IF ok THEN [procs[p] EXCEPT
                                 !.txn = "open",
                                 !.tbl = IF procs[p].op = "save7R" THEN daily ELSE weekly,
                                 !.pc = IF procs[p].op = "save7R" THEN "loop" ELSE "clear"]
                   ELSE TxReturn(procs[p], "DBError")]
  /\ UNCHANGED <<stats, weekly, daily, last, lockHolder, commits, calc, reply, users, statSeq>>

\* the DELETE of the weekly handlers
TxClear(p) ==
  /\ procs[p].pc = "clear"
  /\ \E ok \in BOOLEAN :
       procs' = [procs EXCEPT ![p] =
                   IF ok THEN [procs[p] EXCEPT !.tbl = TxCleared(procs[p]), !.pc = "loop"]
                   ELSE RollbackReturn(procs[p], "DBError")]
  /\ UNCHANGED <<stats, weekly, daily, last, lockHolder, commits, calc, reply, users, statSeq>>

\* one payload row: its lookup, checks and statements
TxRow(p) ==
  /\ procs[p].pc = "loop"
  /\ procs[p].i <= Len(procs[p].rows)
  /\ \E ok \in BOOLEAN :
       LET r == TxRowStep(procs[p])
       IN procs' = [procs EXCEPT ![p] =
                      IF r.result # "OK" THEN RollbackReturn(procs[p], r.result)
                      ELSE IF ~ok THEN RollbackReturn(procs[p], "DBError")
                      ELSE [procs[p] EXCEPT !.tbl = r.tx, !.i = procs[p].i + 1]]
  /\ UNCHANGED <<stats, weekly, daily, last, lockHolder, commits, calc, reply, users, statSeq>>

\* tx.Commit() after the last row
TxCommit(p) ==
  /\ procs[p].pc = "loop"
  /\ procs[p].i > Len(procs[p].rows)
  /\ \E ok \in BOOLEAN :
       /\ procs' = [procs EXCEPT ![p] =
                      IF ok THEN TxReturn([procs[p] EXCEPT !.txn = "committed"], "OK")
                      ELSE TxReturn([procs[p] EXCEPT !.txn = "rolledback"], "DBError")]
       /\ weekly' = IF ok /\ procs[p].op # "save7R" THEN procs[p].tbl ELSE weekly
       /\ daily' = IF ok /\ procs[p].op = "save7R" THEN procs[p].tbl ELSE daily
  /\ UNCHANGED <<stats, last, lockHolder, commits, calc, reply, users, statSeq>>

InitTx ==
  /\ stats = InitialStats
  /\ weekly = EmptyBag
  /\ daily = EmptyBag
  /\ last = NoCall
  /\ procs \in [TxIds -> TxRuns]
  /\ lockHolder = 0
  /\ commits = <<>>
  /\ calc = NoCalc
  /\ reply = NoReply
  /\ users = UserRole
  /\ statSeq = LastStatId

NextTx == \E p \in TxIds : TxCheck(p) \/ TxBegin(p) \/ TxClear(p) \/ TxRow(p) \/ TxCommit(p)

SpecTx == InitTx /\ [][NextTx]_vars

\* C19: when a write handler returns, the transaction it began is no longer
\* open: it was committed when the handler reports success and rolled back
\* when it reports an error; a handler that began none reports an error.
C19_NoTransactionLeftOpen ==
  \A p \in TxIds :
    procs[p].pc = "returned" =>
      /\ procs[p].txn # "open"
      /\ procs[p].result = "OK" <=> procs[p].txn = "committed"

\* a batch handler returned an error found at its second row, its transaction
\* rolled back
C19_RolledBackAtSecondRow ==
  \E p \in TxIds :
    /\ procs[p].pc = "returned" /\ procs[p].txn = "rolledback"
    /\ procs[p].i = 2 /\ procs[p].result \in {"InvalidValue", "StatNotFound", "InvalidScope"}

(***************************************************************************)
(* A write followed by a read of the same user (SpecRead)                  *)
(***************************************************************************)
\* two decimal strings denote the same number
NumEq(a, b) == a.k = "dec" /\ b.k = "dec" /\ SignedThou(a) = SignedThou(b)

\* the value string "1.50"
OnePointFive == Dec(FALSE, 1500, 2)

\* a grid row with a value for Thursday only
ThursdayOnly(statID, v) == Save7RRow(statID, v, Empty, Empty, Empty, Empty, Empty)

\* user uid saves v for the Thursday of week 7 of the stat and reads the week
\* back: every reply shows for Thursday a string numerically equal to v
DailyRoundTrip(uid, statID, v) ==
  LET w == handleSave7R(daily, uid, 7, <<ThursdayOnly(statID, v)>>)
  IN w.result = "OK" =>
       \A r \in handleGetDailyStats(w.tbl, AuthMiddleware("", uid).ctx, 7, SprintfD(statID), "") :
         r.result = "OK" /\ NumEq(r.out.Thursday, v)

\* C21: a valid value saved through handleSave7R for a day of a personal stat
\* is read back by handleGetDailyStats of the same user as a string
\* numerically equal to it, for number, currency and percentage stats.
C21_DailyRoundTrip ==
  \A uid \in Users, statID \in {1, 2, 3}, v \in {Five, OneFifty, OnePointFive} :
    DailyRoundTrip(uid, statID, v)

\* the currency third of C21 alone
C21_CurrencyRoundTrip ==
  \A uid \in Users, v \in {Five, OneFifty, OnePointFive} : DailyRoundTrip(uid, 1, v)

\* the table w holds v for week 7 of the stat: every reply to the user's weekly
\* read lists week 7 with a Value (in hundredths) numerically equal to v
WeeklyReadsBack(w, uid, statID, v) ==
  w.result = "OK" =>
    \A r \in handleGetWeeklyStats(w.tbl, AuthMiddleware("", uid).ctx, SprintfD(statID), "", Empty) :
      /\ r.result = "OK"
      /\ \E i \in DOMAIN r.out : r.out[i].Weekending = 7 /\ r.out[i].Value * 10 = SignedThou(v)

WeeklyRoundTrip(uid, statID, v) ==
  /\ WeeklyReadsBack(handleLogWeeklyStats(weekly, uid, statID, 7, v), uid, statID, v)
  /\ WeeklyReadsBack(handleSaveWeeklyEdit(weekly, uid, <<WeeklyPayloadRow(statID, 7, v)>>),
                     uid, statID, v)

\* C22: a value committed through handleLogWeeklyStats or handleSaveWeeklyEdit
\* is returned by handleGetWeeklyStats for its week as a Value numerically
\* equal to it, for number, currency and percentage stats.
C22_WeeklyRoundTrip ==
  \A uid \in Users, statID \in {1, 2, 3}, v \in {Five, OneFifty, OnePointFive} :
    WeeklyRoundTrip(uid, statID, v)

\* the currency and percentage part of C22 alone
C22_ScaledRoundTrip ==
  \A uid \in Users, statID \in {1, 2}, v \in {Five, OneFifty, OnePointFive} :
    WeeklyRoundTrip(uid, statID, v)

\* user uid saves one grid row for week we and reads: the reply for we shows a
\* value exactly for the days the row holds one, and the replies for every
\* other week and stat are what they were before the write
SameDayMapping(uid, statID, we, row) ==
  LET w == handleSave7R(daily, uid, we, <<row>>)
      ctx == AuthMiddleware("", uid).ctx
  IN w.result = "OK" =>
       /\ \A r \in handleGetDailyStats(w.tbl, ctx, we, SprintfD(statID), "") :
            /\ r.result = "OK"
            /\ \A d \in DOMAIN DayOffset : IsEmpty(r.out[d]) <=> IsEmpty(row[d])
       /\ \A o \in SeedWeeks \ {we}, sid \in SeedStatIds :
            handleGetDailyStats(w.tbl, ctx, o, SprintfD(sid), "")
              = handleGetDailyStats(daily, ctx, o, SprintfD(sid), "")

\* C23: after handleSave7R by a user commits a grid row for week W,
\* handleGetDailyStats by that user for W shows a value exactly for the days
\* submitted non-empty, and what is read for another week is unchanged.
C23_SameDayMapping ==
  Quiet =>
    \A uid \in Users, statID \in SeedStatIds, we \in SeedWeeks, p \in SeedPatterns :
      SameDayMapping(uid, statID, we, Save7RRow(statID, p[1], p[2], p[3], p[4], p[5], p[6]))

\* a read of week 7 answered with a value for Friday only while the store
\* holds a row of the following week
C23_FridayReadBack ==
  /\ reply.op = "getDaily" /\ reply.result = "OK" /\ reply.req.date = 7
  /\ ~IsEmpty(reply.out.Friday) /\ IsEmpty(reply.out.Thursday)
  /\ \E r \in DOMAIN daily : r.date >= 14

\* two grids that differ only in their quota, each valid for the stat's value
\* type, are answered alike and leave the same table
QuotaIgnored(uid, statID, we, p, q1, q2) ==
  (DailyFieldOK(q1, stats[statID].value_type) /\ DailyFieldOK(q2, stats[statID].value_type))
    => handleSave7R(daily, uid, we, <<Save7RRow(statID, p[1], p[2], p[3], p[4], p[5], q1)>>)
         = handleSave7R(daily, uid, we, <<Save7RRow(statID, p[1], p[2], p[3], p[4], p[5], q2)>>)

OthersRows(tbl, uid) == [r \in {x \in DOMAIN tbl : x.user_id # uid} |-> tbl[r]]

\* C26: a write request of user A, accepted or refused, leaves every row whose
\* user_id is not A as it was: none inserted, changed or deleted.
C26_WriteIsolation ==
  [][Served =>
       /\ OthersRows(weekly', last'.user) = OthersRows(weekly, last'.user)
       /\ OthersRows(daily', last'.user) = OthersRows(daily, last'.user)]_vars

\* a weekly batch of one user was committed while another user holds a row of
\* the same week
C26_BatchBesideOtherUser ==
  /\ last.op = "saveWeeklyEdit" /\ last.result = "OK"
  /\ \E r1 \in DOMAIN weekly, r2 \in DOMAIN weekly :
       r1.user_id = last.user /\ r2.user_id # last.user /\ r1.week_ending = r2.week_ending

(***************************************************************************)
(* Reads depend on the reader's rows only (SpecRead)                       *)
(***************************************************************************)
\* the rows of a table whose user_id is uid
OwnRows(tbl, uid) == [r \in {x \in DOMAIN tbl : x.user_id = uid} |-> tbl[r]]

\* the status and body of the outstanding reply
ReplyBody == [result |-> reply.result, out |-> reply.out]

MaxNewStats == 2

\* short_id of a create request as typed: blank, lower case, upper case
NewShortInputs == {"", "gi", "PCT"}

NewValueTypes == {"currency", "number"}

\* the {id} of a delete request: "1", "2", "7", "abc"
DeleteIdInputs == {SprintfD(1), SprintfD(2), SprintfD(7), Garbage}

\* POST /api/stats: the short code is required and upper-cased, the row gets
\* the next AUTOINCREMENT id; no existing short code is looked up
CreateStatHandler(st, seq, shortID, statType, valueType, userIDs) ==
  IF shortID = "" THEN [result |-> "ShortIdRequired", stats |-> st, seq |-> seq]
  ELSE [result |-> "Created",
        stats |-> st @@ ((seq + 1) :> [short_id |-> ToUpper(shortID), type |-> statType,
                                       value_type |-> valueType, users |-> userIDs]),
        seq |-> seq + 1]

\* DELETE /api/stats/{id}: id, _ := strconv.Atoi(idStr), then
\* DELETE FROM stats WHERE id=?; the value tables are not touched
DeleteStatHandler(st, idStr) ==
  LET id == IF AtoiOK(idStr) THEN Atoi(idStr) ELSE 0
  IN [result |-> "Deleted", stats |-> [i \in DOMAIN st \ {id} |-> st[i]]]

CreateStat ==
  \E shortID \in NewShortInputs, valueType \in NewValueTypes :
    LET r == CreateStatHandler(stats, statSeq, shortID, "personal", valueType, Users)
    IN /\ statSeq < LastStatId + MaxNewStats
       /\ stats' = r.stats
       /\ statSeq' = r.seq
       /\ UNCHANGED <<weekly, daily, last, procs, lockHolder, commits, calc, reply, users>>

DeleteStat ==
  \E idStr \in DeleteIdInputs :
    /\ stats' = DeleteStatHandler(stats, idStr).stats
    /\ UNCHANGED <<weekly, daily, last, procs, lockHolder, commits, calc, reply, users,
                   statSeq>>

NextStats == CreateStat \/ DeleteStat \/ WriteWeekly \/ WriteDaily

SpecStats == Init /\ [][NextStats]_vars

\* the request context AuthMiddleware builds for user uid
ContextOf(uid) == [company_id |-> "co", user_id |-> uid]

\* a weekly write of uid to stat X leaves the series uid reads for stat Y
WeeklyWriteKeeps(uid, X, Y, date, value) ==
  handleGetWeeklyStats(handleLogWeeklyStats(weekly, uid, X, date, value).tbl,
                       ContextOf(uid), SprintfD(Y), "", Empty)
    = handleGetWeeklyStats(weekly, ContextOf(uid), SprintfD(Y), "", Empty)

\* a daily batch of uid for stat X leaves the week uid reads for stat Y
DailyWriteKeeps(uid, X, Y, we, p) ==
  handleGetDailyStats(handleSave7R(daily, uid, we,
                                   <<Save7RRow(X, p[1], p[2], p[3], p[4], p[5], p[6])>>).tbl,
                      ContextOf(uid), we, SprintfD(Y), "")
    = handleGetDailyStats(daily, ContextOf(uid), we, SprintfD(Y), "")

\* C24: for two distinct stats X and Y, whatever their short codes, a weekly or
\* daily write of a user to X creates, changes and deletes nothing that the
\* same user reads back for Y.
C24_ValueBelongsToOneStat ==
  \A uid \in Users, X \in DOMAIN stats, Y \in DOMAIN stats :
    X # Y =>
      /\ \A date \in SeedWeeks, value \in SeedValues : WeeklyWriteKeeps(uid, X, Y, date, value)
      /\ \A we \in SeedWeeks, p \in SeedPatterns : DailyWriteKeeps(uid, X, Y, we, p)

\* C25: no daily or weekly row of a deleted stat remains: every stored row
\* carries the short code of a stat that exists, so a stat created later with
\* the short code of a deleted one starts without values.
C25_DeleteRemovesValues ==
  \A r \in DOMAIN weekly \cup DOMAIN daily :
    \E id \in DOMAIN stats : ToLower(stats[id].short_id) = r.name

(***************************************************************************)
(* User management: concurrent requests, each passing AuthMiddleware, the  *)
(* handler's checks and its DELETE or UPDATE as separate steps (SpecUsers) *)
(***************************************************************************)
\* the {id} of /api/users/{id}: its text and the users.id SQLite compares it
\* equal to (INTEGER affinity turns the bound text "01" into 1)
TargetInputs ==
  {[text |-> "1", id |-> 1], [text |-> "2", id |-> 2], [text |-> "01", id |-> 1]}

\* the role of an update request
RoleInputs == {"user", "admin", "root"}

\* fmt.Sprintf("%d", adminID) for the user ids in use
UserIdText(uid) == IF uid = 1 THEN "1" ELSE IF uid = 2 THEN "2" ELSE "0"

\* the role the router requires for the route of a request
RequiredRole(op) == IF op = "assigned" THEN "" ELSE "admin"

\* no request is being served
IdleReq == [pc |-> "idle"]

\* DeleteUserHandler up to its DELETE: the self check on the text of {id},
\* then the lookup of the target in the company
DeleteUserLookup(tbl, ctx, target) ==
  IF target.text = UserIdText(ctx.user_id) THEN "Forbidden"
  ELSE IF target.id \notin DOMAIN tbl THEN "NotFound"
  ELSE "OK"

\* DELETE FROM users WHERE id = ?
DeleteUserExec(tbl, target) == [u \in DOMAIN tbl \ {target.id} |-> tbl[u]]

\* UpdateUserRoleHandler up to its UPDATE: the role, the self check, the lookup
UpdateUserRoleLookup(tbl, ctx, target, role) ==
  IF role \notin {"user", "admin"} THEN "InvalidRole"
  ELSE IF target.text = UserIdText(ctx.user_id) THEN "Forbidden"
  ELSE IF target.id \notin DOMAIN tbl THEN "NotFound"
  ELSE "OK"

\* UPDATE users SET role = ? WHERE id = ?
UpdateUserRoleExec(tbl, target, role) ==
  [u \in DOMAIN tbl |-> IF u = target.id THEN role ELSE tbl[u]]

\* a request arrives with a session cookie
ReqStart(p) ==
  /\ procs[p].pc = "idle"
  /\ \E sessionUser \in SessionInputs, op \in {"deleteUser", "updateRole", "assigned"},
        target \in TargetInputs, role \in RoleInputs :
       /\ op = "assigned" => (target.text = "1" /\ role = "user")
       /\ op = "deleteUser" => role = "user"
       /\ procs' = [procs EXCEPT ![p] = [pc |-> "auth", session |-> sessionUser, op |-> op,
                                         target |-> target, role |-> role, result |-> ""]]
  /\ UNCHANGED <<stats, weekly, daily, last, lockHolder, commits, calc, reply, users, statSeq>>

\* AuthMiddleware answers the request or hands it to the wrapped handler;
\* the handler of /api/stats/assigned changes nothing
ReqAuth(p) ==
  /\ procs[p].pc = "auth"
  /\ LET a == AuthMiddleware(RequiredRole(procs[p].op), procs[p].session)
     IN procs' = [procs EXCEPT ![p].pc = IF a.ok /\ procs[p].op # "assigned"
                                           THEN "handler" ELSE "done",
                               ![p].result = a.status]
  /\ UNCHANGED <<stats, weekly, daily, last, lockHolder, commits, calc, reply, users, statSeq>>

\* the handler's checks and its lookup query
ReqLookup(p) ==
  /\ procs[p].pc = "handler"
  /\ LET ctx == ContextOf(procs[p].session)
         r == IF procs[p].op = "deleteUser"
                THEN DeleteUserLookup(users, ctx, procs[p].target)
              ELSE UpdateUserRoleLookup(users, ctx, procs[p].target, procs[p].role)
     IN procs' = [procs EXCEPT ![p].pc = IF r = "OK" THEN "exec" ELSE "done",
                               ![p].result = r]
  /\ UNCHANGED <<stats, weekly, daily, last, lockHolder, commits, calc, reply, users, statSeq>>

\* the handler's DELETE or UPDATE
ReqExec(p) ==
  /\ procs[p].pc = "exec"
  /\ users' = IF procs[p].op = "deleteUser"
                THEN DeleteUserExec(users, procs[p].target)
              ELSE UpdateUserRoleExec(users, procs[p].target, procs[p].role)
  /\ procs' = [procs EXCEPT ![p].pc = "done", ![p].result = "OK"]
  /\ UNCHANGED <<stats, weekly, daily, last, lockHolder, commits, calc, reply, statSeq>>

\* the response has been written
ReqReturn(p) ==
  /\ procs[p].pc = "done"
  /\ procs' = [procs EXCEPT ![p] = IdleReq]
  /\ UNCHANGED <<stats, weekly, daily, last, lockHolder, commits, calc, reply, users, statSeq>>

InitUsers ==
  /\ stats = InitialStats
  /\ weekly = EmptyBag
  /\ daily = EmptyBag
  /\ last = NoCall
  /\ procs = [p \in ReqIds |-> IdleReq]
  /\ lockHolder = 0
  /\ commits = <<>>
  /\ calc = NoCalc
  /\ reply = NoReply
  /\ users = UserRole
  /\ statSeq = LastStatId

NextUsers ==
  \E p \in ReqIds : ReqStart(p) \/ ReqAuth(p) \/ ReqLookup(p) \/ ReqExec(p) \/ ReqReturn(p)

SpecUsers == InitUsers /\ [][NextUsers]_vars

\* the session of request p names a user stored now whose stored role is the
\* one the route requires
SessionGoodNow(p) ==
  /\ procs[p].session # 0
  /\ procs[p].session \in DOMAIN users
  /\ RequiredRole(procs[p].op) # "" => users[procs[p].session] = RequiredRole(procs[p].op)

\* C28: AuthMiddleware admits a request only if, at that moment, its session
\* names a stored user whose stored role is the required one; every other
\* request, those of a deleted user and of a demoted admin included, ends in
\* the middleware with Unauthorized or Forbidden and never reaches the handler.
C28_RecheckedOnEveryRequest ==
  [][\A p \in ReqIds :
       procs[p].pc = "auth" =>
         /\ (procs'[p].pc # "auth" /\ procs'[p].result = "OK") => SessionGoodNow(p)
         /\ (procs'[p].pc # "auth" /\ ~SessionGoodNow(p))
              => /\ procs'[p].pc = "done"
                 /\ procs'[p].result
                      = IF procs[p].session \in DOMAIN users THEN "Forbidden"
                        ELSE "Unauthorized"]_vars

\* a request with the session of user 2 was answered Unauthorized after user 2
\* had been deleted
C28_DeletedUserRejected ==
  \E p \in ReqIds :
    /\ procs[p].pc = "done" /\ procs[p].result = "Unauthorized"
    /\ procs[p].session = 2 /\ 2 \notin DOMAIN users

\* C29: the company always has at least one user with role admin.
C29_AlwaysAnAdmin == \E u \in DOMAIN users : users[u] = "admin"

====
